---- MODULE Spec2Model ----
(***************************************************************************)
(* Session-state management of the chat front-end (src/main.py): the       *)
(* in-memory registry chat_sessions, the current_session_id pointer and    *)
(* the HTTP handlers that read and mutate them.                            *)
(*                                                                         *)
(* Strings are sequences of one-character strings, so that strip(),        *)
(* re.sub(r"\s+", " ", ...), slicing and startswith() are computed as the  *)
(* code computes them.  A session id f"session_{n}_{ts}" is the pair       *)
(* <<n, ts>> (the two decimal fields determine the string and conversely). *)
(* The registry is a sequence of records in dict insertion order.          *)
(***************************************************************************)
EXTENDS Integers, Sequences, FiniteSets, TLC

VARIABLES
    chat_sessions,       \* the dict of line 26, in insertion order
    current_session_id,  \* the global of line 27
    now,                 \* the last reading of datetime.now(), in ticks
    response,            \* what the last completed handler returned
    threads              \* the worker threads: where each is in its handler

vars == <<chat_sessions, current_session_id, now, response, threads>>

-----------------------------------------------------------------------------
(* Bounds of the model *)

\* Spec: the registry grows to MaxSessions sessions holding MaxTurns turns
MaxSessions == 2
MaxTurns == 2
\* SpecChat: fewer sessions, longer conversations
MaxSessionsChat == 1
MaxTurnsChat == 4
\* SpecThreads: NThreads workers run handlers step by step
NThreads == 2
MaxSessionsThreads == 2
MaxTurnsThreads == 2
MaxTimeThreads == 0
\* the clock runs to MaxTime ticks, TicksPerSecond of them in a second
MaxTime == 1
TicksPerSecond == 1

-----------------------------------------------------------------------------
(* Strings *)

None == <<>>

NewChat == <<"N", "e", "w", " ", "C", "h", "a", "t">>

IsSpace(c) == c \in {" ", "\t", "\n"}

RECURSIVE LStrip(_)
LStrip(s) ==
    IF s = <<>> THEN <<>>
    ELSE IF IsSpace(Head(s)) THEN LStrip(Tail(s)) ELSE s

RECURSIVE RStrip(_)
RStrip(s) ==
    IF s = <<>> THEN <<>>
    ELSE IF IsSpace(s[Len(s)]) THEN RStrip(SubSeq(s, 1, Len(s) - 1)) ELSE s

Strip(s) == RStrip(LStrip(s))

\* re.sub(r"\s+", " ", s): every maximal run of whitespace becomes one space
RECURSIVE CollapseSpaces(_)
CollapseSpaces(s) ==
    IF s = <<>> THEN <<>>
    ELSE IF IsSpace(Head(s))
         THEN <<" ">> \o CollapseSpaces(LStrip(s))
         ELSE <<Head(s)>> \o CollapseSpaces(Tail(s))

Slice(s, limit) == SubSeq(s, 1, IF Len(s) < limit THEN Len(s) ELSE limit)

StartsWith(s, p) == Len(s) >= Len(p) /\ SubSeq(s, 1, Len(p)) = p

DigitChar(d) ==
    CASE d = 0 -> "0" [] d = 1 -> "1" [] d = 2 -> "2" [] d = 3 -> "3"
      [] d = 4 -> "4" [] d = 5 -> "5" [] d = 6 -> "6" [] d = 7 -> "7"
      [] d = 8 -> "8" [] d = 9 -> "9"

RECURSIVE IntToStr(_)
IntToStr(n) ==
    IF n < 10 THEN <<DigitChar(n)>>
    ELSE IntToStr(n \div 10) \o <<DigitChar(n % 10)>>

SlugLimit == 40

\* slug_from_text: None (the empty sequence) when nothing is left
slug_from_text(text, limit) == Slice(CollapseSpaces(Strip(text)), limit)

-----------------------------------------------------------------------------
(* The registry: a dict in insertion order *)

Keys(reg) == {reg[i].id : i \in 1..Len(reg)}

IndexOf(reg, id) == CHOOSE i \in 1..Len(reg) : reg[i].id = id

Lookup(reg, id) == reg[IndexOf(reg, id)]

\* reg[id] = rec: an existing key keeps its place and has its value replaced
SetItem(reg, rec) ==
    IF rec.id \in Keys(reg)
    THEN [reg EXCEPT ![IndexOf(reg, rec.id)] = rec]
    ELSE Append(reg, rec)

\* del reg[id]
DelItem(reg, id) ==
    LET i == IndexOf(reg, id)
    IN SubSeq(reg, 1, i - 1) \o SubSeq(reg, i + 1, Len(reg))

\* next(iter(reg.keys()), None)
FirstKey(reg) == IF reg = <<>> THEN None ELSE reg[1].id

new_session_title(reg) == NewChat \o <<" ">> \o IntToStr(Len(reg) + 1)

\* int(datetime.now().timestamp())
Timestamp(t) == t \div TicksPerSecond

SessionId(reg, t) == <<Len(reg) + 1, Timestamp(t)>>

\* create_session_object: the new registry and the id it returns
create_session_object(reg, t) ==
    LET sid == SessionId(reg, t)
    IN [sid |-> sid,
        reg |-> SetItem(reg, [id |-> sid,
                              history |-> <<>>,
                              created_at |-> t,
                              title |-> new_session_title(reg),
                              pinned |-> FALSE])]

\* line 39 left out: the new session is not made current
get_or_create_default_session_keeps_pointer(reg, cur, t) ==
    LET made == create_session_object(reg, t)
        reg2 == IF reg = <<>> THEN made.reg ELSE reg
    IN [reg |-> reg2, cur |-> cur, found |-> cur \in Keys(reg2)]

\* get_or_create_default_session: registry, pointer and whether the final
\* lookup chat_sessions[current_session_id] succeeds
get_or_create_default_session(reg, cur, t) ==
    LET made == create_session_object(reg, t)
        reg2 == IF reg = <<>> THEN made.reg ELSE reg
        cur2 == IF reg = <<>> THEN made.sid ELSE cur
    IN [reg |-> reg2, cur |-> cur2, found |-> cur2 \in Keys(reg2)]

-----------------------------------------------------------------------------
(* Inputs of the requests *)

\* an id no session ever has ("session_0_0": the count in an id is >= 1)
UnknownId == <<0, 0>>

\* the <session_id> of a request: a session of the registry, or none
RequestIds(reg) == Keys(reg) \cup {UnknownId}

\* a key the JSON body does not have
Absent == [kind |-> "absent", val |-> <<>>]
JsonNull == [kind |-> "null", val |-> <<>>]
JsonStr(s) == [kind |-> "str", val |-> s]
JsonBool(b) == [kind |-> "bool", val |-> b]
JsonNum(n) == [kind |-> "num", val |-> n]

\* Python truth of a JSON value: null, false, 0 and "" are false
Truthy(j) ==
    CASE j.kind = "bool" -> j.val
      [] j.kind = "num" -> j.val # 0
      [] j.kind = "str" -> j.val # <<>>
      [] OTHER -> FALSE

\* the JSON bodies of PUT /api/sessions/<id>
UpdateBodies ==
    {[title |-> Absent, pinned |-> Absent],
     [title |-> JsonNull, pinned |-> JsonStr(<<"n", "o">>)],
     [title |-> JsonStr(<<>>), pinned |-> JsonNull],
     [title |-> JsonStr(<<" ", "\t">>), pinned |-> JsonBool(FALSE)],
     [title |-> JsonStr(<<" ", "h", "i", " ">>), pinned |-> Absent],
     [title |-> Absent, pinned |-> JsonBool(TRUE)],
     [title |-> Absent, pinned |-> JsonNum(0)]}

\* POST /chat: the message field and the number of image parts it could build
ChatRequests ==
    {[message |-> <<>>, images |-> 0],
     [message |-> <<" ">>, images |-> 0],
     [message |-> <<" ">>, images |-> 1],
     [message |-> <<"h", "i", " ">>, images |-> 0],
     [message |-> <<" ", "N", "e", "w", " ", "\t", "C", "h", "a", "t", "s">>, images |-> 0]}

ReplyOk == <<"o", "k">>
ModelErrorPrefix == <<"M", "o", "d", "e", "l", " ", "e", "r", "r", "o", "r", ":", " ">>
Prompt ==
    <<"P", "l", "e", "a", "s", "e", " ", "t", "y", "p", "e", " ", "o", "r", " ",
      "u", "p", "l", "o", "a", "d", " ", "s", "o", "m", "e", "t", "h", "i", "n", "g", ".">>

\* what generate_content_stream does: the chunks' text, or an exception
ModelOutcomes == {[raised |-> FALSE, text |-> ReplyOk], [raised |-> TRUE, text |-> <<"x">>]}

ReplyText(outcome) ==
    IF outcome.raised
    THEN ModelErrorPrefix \o outcome.text
    ELSE outcome.text

-----------------------------------------------------------------------------
(* GET /api/sessions *)

\* line 69 without its test of the role: every turn counts
CountUser_every_turn(h) == Len(h)

RECURSIVE CountUser(_)
CountUser(h) ==
    IF h = <<>> THEN 0
    ELSE (IF Head(h).role = "user" THEN 1 ELSE 0) + CountUser(Tail(h))

Summary(data) ==
    [id |-> data.id, title |-> data.title, created_at |-> data.created_at,
     message_count |-> CountUser(data.history), pinned |-> data.pinned]

\* the key of line 77, ((not pinned), created_at), compared as Python
\* compares tuples (False < True)
SortKey(x) == <<IF x.pinned THEN 0 ELSE 1, x.created_at>>

KeyLess(a, b) == a[1] < b[1] \/ (a[1] = b[1] /\ a[2] < b[2])

\* x enters a list sorted in descending key order behind every item whose
\* key is not smaller (the sort is stable: equal keys keep their order)
RECURSIVE InsertDesc(_, _)
InsertDesc(sorted, x) ==
    IF sorted = <<>> THEN <<x>>
    ELSE IF KeyLess(SortKey(Head(sorted)), SortKey(x))
         THEN <<x>> \o sorted
         ELSE <<Head(sorted)>> \o InsertDesc(Tail(sorted), x)

RECURSIVE SortDesc(_, _)
SortDesc(items, acc) ==
    IF items = <<>> THEN acc
    ELSE SortDesc(Tail(items), InsertDesc(acc, Head(items)))

SessionItems(reg) == SortDesc([i \in 1..Len(reg) |-> Summary(reg[i])], <<>>)

-----------------------------------------------------------------------------
(* The handlers, each run from start to end: what a handler leaves           *)
(* (registry, pointer) and what it answers (status, reply), then the action *)
(* that applies it.                                                         *)

\* the HTTP status and, for POST /chat, the reply of the body.  The ids that
\* other bodies report are values of the state the handler leaves
\* (current_session_id at line 137, the request's own id at line 145).
Resp(status, reply) == [status |-> status, reply |-> reply]

Result(reg, cur, status, reply) ==
    [reg |-> reg, cur |-> cur, status |-> status, reply |-> reply]

Threads == 1..NThreads

\* what a handler holds of a session: the dict of key `key`, which is still
\* the value of that key (live) or was removed or replaced since
NoRef == [key |-> None, live |-> FALSE]

NoRequest == [message |-> <<>>, images |-> 0]

\* a worker between requests
Idle == [pc |-> "idle", op |-> "none", arg |-> None, sid |-> None,
         sess |-> NoRef, req |-> NoRequest]

Apply(r) ==
    /\ chat_sessions' = r.reg
    /\ current_session_id' = r.cur
    /\ response' = Resp(r.status, r.reply)
    /\ UNCHANGED threads

RECURSIVE TotalTurns(_)
TotalTurns(reg) ==
    IF reg = <<>> THEN 0 ELSE Len(Head(reg).history) + TotalTurns(Tail(reg))

Init ==
    /\ chat_sessions = <<>>
    /\ current_session_id = None
    /\ now = 0
    /\ response = Resp(0, None)
    /\ threads = [th \in Threads |-> Idle]

\* what datetime.now() can return to a handler that reads the clock: the
\* clock never runs backwards
Clock(reads) == IF reads THEN now..MaxTime ELSE {now}

\* GET /
index_result(reg, cur, t) ==
    LET g == get_or_create_default_session(reg, cur, t)
    IN Result(g.reg, g.cur, IF g.found THEN 200 ELSE 500, None)

index ==
    \E t \in Clock(chat_sessions = <<>>) :
       /\ Apply(index_result(chat_sessions, current_session_id, t))
       /\ now' = t

\* GET /api/sessions: the body is SessionItems(chat_sessions) and the pointer
get_sessions ==
    /\ Apply(Result(chat_sessions, current_session_id, 200, None))
    /\ UNCHANGED now

\* the parts of one turn as GET /api/sessions/<id> reports them
MessageOf(content) ==
    [role |-> content.role,
     parts |-> (IF content.text # <<>> THEN <<"text">> ELSE <<>>)
               \o [k \in 1..content.images |-> "image"]]

\* the body of GET /api/sessions/<session_id> for a session of the registry
SessionBody(reg, session_id) ==
    LET session == Lookup(reg, session_id)
    IN [id |-> session_id, title |-> session.title,
        created_at |-> session.created_at,
        messages |-> [k \in 1..Len(session.history) |-> MessageOf(session.history[k])]]

\* GET /api/sessions/<session_id>
get_session_result(reg, cur, session_id) ==
    IF session_id \notin Keys(reg)
    THEN Result(reg, cur, 404, None)
    ELSE Result(reg, cur, 200, None)

get_session(session_id) ==
    /\ Apply(get_session_result(chat_sessions, current_session_id, session_id))
    /\ UNCHANGED now

\* POST /api/sessions
create_session_result(reg, cur, t) ==
    LET made == create_session_object(reg, t)
    IN Result(made.reg, made.sid, 200, None)

create_session(maxSessions) ==
    \E t \in Clock(TRUE) :
       /\ Len(chat_sessions) < maxSessions
       /\ Apply(create_session_result(chat_sessions, current_session_id, t))
       /\ now' = t

\* line 122 without its fallback: a blank title is stored
UpdatedTitle_stores_blank(old, j) == Strip(IF Truthy(j) THEN j.val ELSE <<>>)

\* line 122: (data["title"] or "").strip() or the title the session has
UpdatedTitle(old, j) ==
    LET s == Strip(IF Truthy(j) THEN j.val ELSE <<>>)
    IN IF s # <<>> THEN s ELSE old

\* lines 121-124 on one session record
UpdatedSession(sess, data) ==
    [sess EXCEPT !.title = IF data.title # Absent THEN UpdatedTitle(@, data.title) ELSE @,
                 !.pinned = IF data.pinned # Absent THEN Truthy(data.pinned) ELSE @]

\* PUT /api/sessions/<session_id>
update_session_result(reg, cur, session_id, data) ==
    IF session_id \notin Keys(reg)
    THEN Result(reg, cur, 404, None)
    ELSE Result([reg EXCEPT ![IndexOf(reg, session_id)] = UpdatedSession(@, data)],
                cur, 200, None)

update_session(session_id, data) ==
    /\ Apply(update_session_result(chat_sessions, current_session_id, session_id, data))
    /\ UNCHANGED now

\* line 135: the removal leaves no session to point at
DeleteCreates(reg, cur, session_id) ==
    /\ session_id \in Keys(reg)
    /\ cur = session_id
    /\ FirstKey(DelItem(reg, session_id)) = None

\* lines 133-136 left out: the pointer keeps the removed id
delete_session_result_keeps_pointer(reg, cur, session_id, t) ==
    IF session_id \notin Keys(reg) THEN Result(reg, cur, 404, None)
    ELSE Result(DelItem(reg, session_id), cur, 200, None)

\* lines 135-136 left out: no session replaces the last one
delete_session_result_no_default(reg, cur, session_id, t) ==
    LET reg1 == DelItem(reg, session_id)
    IN IF session_id \notin Keys(reg) THEN Result(reg, cur, 404, None)
       ELSE IF cur # session_id THEN Result(reg1, cur, 200, None)
       ELSE Result(reg1, FirstKey(reg1), 200, None)

\* lines 133-135 left out: every removal is followed by a creation
delete_session_result_always_creates(reg, cur, session_id, t) ==
    LET made == create_session_object(DelItem(reg, session_id), t)
    IN IF session_id \notin Keys(reg) THEN Result(reg, cur, 404, None)
       ELSE Result(made.reg, made.sid, 200, None)

\* DELETE /api/sessions/<session_id>
delete_session_result(reg, cur, session_id, t) ==
    LET reg1 == DelItem(reg, session_id)
        made == create_session_object(reg1, t)
    IN IF session_id \notin Keys(reg) THEN Result(reg, cur, 404, None)
       ELSE IF cur # session_id THEN Result(reg1, cur, 200, None)
       ELSE IF FirstKey(reg1) # None THEN Result(reg1, FirstKey(reg1), 200, None)
       ELSE Result(made.reg, made.sid, 200, None)

delete_session(session_id) ==
    \E t \in Clock(DeleteCreates(chat_sessions, current_session_id, session_id)) :
       /\ Apply(delete_session_result(chat_sessions, current_session_id, session_id, t))
       /\ now' = t

\* lines 142-143 left out: any id becomes current
switch_session_result_unchecked(reg, cur, session_id) ==
    Result(reg, session_id, 200, None)

\* POST /api/switch-session/<session_id>
switch_session_result(reg, cur, session_id) ==
    IF session_id \notin Keys(reg)
    THEN Result(reg, cur, 404, None)
    ELSE Result(reg, session_id, 200, None)

switch_session(session_id) ==
    /\ Apply(switch_session_result(chat_sessions, current_session_id, session_id))
    /\ UNCHANGED now

\* line 151 on every session instead of the current one
reset_result_clears_all(reg, cur, t) ==
    LET g == get_or_create_default_session(reg, cur, t)
    IN Result([i \in 1..Len(g.reg) |-> [g.reg[i] EXCEPT !.history = <<>>]], g.cur,
              IF g.found THEN 200 ELSE 500, None)

\* POST /reset
reset_result(reg, cur, t) ==
    LET g == get_or_create_default_session(reg, cur, t)
    IN IF g.found
       THEN Result([g.reg EXCEPT ![IndexOf(g.reg, g.cur)].history = <<>>], g.cur, 200, None)
       ELSE Result(g.reg, g.cur, 500, None)

reset ==
    \E t \in Clock(chat_sessions = <<>>) :
       /\ Apply(reset_result(chat_sessions, current_session_id, t))
       /\ now' = t

UserTurn(user_text, images) == [role |-> "user", text |-> user_text, images |-> images]

ModelTurn(reply_text) == [role |-> "model", text |-> reply_text, images |-> 0]

\* lines 208-211 without the tests of user_text and maybe
AutoTitle_unguarded(title, user_text) ==
    IF StartsWith(title, NewChat) THEN slug_from_text(user_text, SlugLimit) ELSE title

\* lines 208-211: the title after a user turn with this text
AutoTitle(title, user_text) ==
    IF StartsWith(title, NewChat) /\ user_text # <<>>
    THEN LET maybe == slug_from_text(user_text, SlugLimit)
         IN IF maybe # <<>> THEN maybe ELSE title
    ELSE title

\* line 229 left out: the reply is not recorded
ChatOnSession_without_reply(sess, user_text, images, reply_text) ==
    [sess EXCEPT !.history = Append(@, UserTurn(user_text, images)),
                 !.title = AutoTitle(@, user_text)]

\* lines 205-229 on the session record the request holds
ChatOnSession(sess, user_text, images, reply_text) ==
    [sess EXCEPT !.history = @ \o <<UserTurn(user_text, images), ModelTurn(reply_text)>>,
                 !.title = AutoTitle(@, user_text)]

\* line 192 on the message as it was sent, without the strip of line 190
EmptyInput_untrimmed(req) == req.message = <<>> /\ req.images = 0

\* line 192: nothing to send
EmptyInput(req) == Strip(req.message) = <<>> /\ req.images = 0

\* POST /chat
chat_result(reg, cur, req, outcome, t) ==
    LET user_text == Strip(req.message)
        g == get_or_create_default_session(reg, cur, t)
        reply_text == ReplyText(outcome)
    IN IF EmptyInput(req) THEN Result(reg, cur, 200, Prompt)
       ELSE IF ~g.found THEN Result(g.reg, g.cur, 500, None)
       ELSE Result([g.reg EXCEPT ![IndexOf(g.reg, g.cur)] =
                       ChatOnSession(@, user_text, req.images, reply_text)],
                   g.cur, 200, reply_text)

chat(req, outcome, maxTurns) ==
    \E t \in Clock(~EmptyInput(req) /\ chat_sessions = <<>>) :
       /\ TotalTurns(chat_sessions) + 2 <= maxTurns
       /\ Apply(chat_result(chat_sessions, current_session_id, req, outcome, t))
       /\ now' = t

\* the requests that take no bound
Request ==
    \/ index
    \/ get_sessions
    \/ \E id \in RequestIds(chat_sessions) : get_session(id)
    \/ \E id \in RequestIds(chat_sessions), data \in UpdateBodies :
          update_session(id, data)
    \/ \E id \in RequestIds(chat_sessions) : delete_session(id)
    \/ \E id \in RequestIds(chat_sessions) : switch_session(id)
    \/ reset

Next ==
    \/ Request
    \/ create_session(MaxSessions)
    \/ \E req \in ChatRequests, outcome \in ModelOutcomes : chat(req, outcome, MaxTurns)

Spec == Init /\ [][Next]_vars

NextChat ==
    \/ Request
    \/ create_session(MaxSessionsChat)
    \/ \E req \in ChatRequests, outcome \in ModelOutcomes : chat(req, outcome, MaxTurnsChat)

SpecChat == Init /\ [][NextChat]_vars

-----------------------------------------------------------------------------
(* The handlers on worker threads (app.run serves each request on its own   *)
(* thread and the module takes no lock): a step is one access to            *)
(* chat_sessions or current_session_id, and steps of different threads      *)
(* interleave.                                                              *)

\* the requests the workers serve: every handler that writes, the renaming
\* body of update_session, the empty chat request and one with a message
ThreadUpdateBodies == {data \in UpdateBodies : data.title \in {JsonStr(<<" ", "h", "i", " ">>)}}

ThreadChatRequests == {req \in ChatRequests : req.images = 0 /\ Len(req.message) \in {0, 3}}

ThreadClock == {t \in Clock(TRUE) : t <= MaxTimeThreads}

At(th, pc) == threads[th].pc = pc

InFlight(op) == Cardinality({th \in Threads : threads[th].op = op})

\* the thread goes on in its handler
Goto(th, pc) == threads' = [threads EXCEPT ![th].pc = pc]

\* the handler returns
Finish(th, status, reply) ==
    /\ threads' = [threads EXCEPT ![th] = Idle]
    /\ response' = Resp(status, reply)

\* the dict of `key` left the registry: the handlers that hold it keep it
Orphaned(thrs, key) ==
    [th \in Threads |->
        IF thrs[th].sess.key = key THEN [thrs[th] EXCEPT !.sess.live = FALSE]
        ELSE thrs[th]]

\* line 37, entered from index, reset or chat
EnterDefault(th, op, req) ==
    /\ At(th, "idle")
    /\ threads' = [threads EXCEPT ![th] =
                      [Idle EXCEPT !.op = op, !.req = req,
                                   !.pc = IF chat_sessions = <<>> THEN "cso_id"
                                          ELSE "goc_lookup"]]
    /\ UNCHANGED <<chat_sessions, current_session_id, now, response>>

t_index(th) == EnterDefault(th, "index", NoRequest)

t_reset(th) == EnterDefault(th, "reset", NoRequest)

\* lines 162-196 of a request that has something to send
t_chat(th, req) ==
    /\ ~EmptyInput(req)
    /\ TotalTurns(chat_sessions) + 2 * (InFlight("chat") + 1) <= MaxTurnsThreads
    /\ EnterDefault(th, "chat", req)

\* lines 192-193
t_chat_empty(th, req) ==
    /\ At(th, "idle")
    /\ EmptyInput(req)
    /\ Finish(th, 200, Prompt)
    /\ UNCHANGED <<chat_sessions, current_session_id, now>>

\* line 48
t_cso_id(th) ==
    \E t \in ThreadClock :
       /\ \/ At(th, "cso_id")
          \/ /\ At(th, "idle")
             /\ Len(chat_sessions) + InFlight("create") < MaxSessionsThreads
       /\ threads' = [threads EXCEPT ![th].pc = "cso_store",
                                     ![th].op = IF At(th, "idle") THEN "create" ELSE @,
                                     ![th].sid = SessionId(chat_sessions, t)]
       /\ now' = t
       /\ UNCHANGED <<chat_sessions, current_session_id, response>>

\* lines 49-55
t_cso_store(th) ==
    \E t \in ThreadClock :
       LET sid == threads[th].sid
           after == CASE threads[th].op = "create" -> "cs_setcur"
                      [] threads[th].op = "delete" -> "del_setcur"
                      [] OTHER -> "goc_setcur"
       IN /\ At(th, "cso_store")
          /\ chat_sessions' = SetItem(chat_sessions,
                                      [id |-> sid, history |-> <<>>, created_at |-> t,
                                       title |-> new_session_title(chat_sessions),
                                       pinned |-> FALSE])
          /\ threads' = [Orphaned(threads, sid) EXCEPT ![th].pc = after]
          /\ now' = t
          /\ UNCHANGED <<current_session_id, response>>

\* line 39
t_goc_setcur(th) ==
    /\ At(th, "goc_setcur")
    /\ current_session_id' = threads[th].sid
    /\ Goto(th, "goc_lookup")
    /\ UNCHANGED <<chat_sessions, now, response>>

\* line 40, and the return to index, reset or chat
t_goc_lookup(th) ==
    /\ At(th, "goc_lookup")
    /\ IF current_session_id \notin Keys(chat_sessions)
       THEN Finish(th, 500, None)
       ELSE IF threads[th].op = "index"
       THEN Finish(th, 200, None)
       ELSE /\ threads' = [threads EXCEPT
                              ![th].sess = [key |-> current_session_id, live |-> TRUE],
                              ![th].pc = IF threads[th].op = "reset" THEN "reset_clear"
                                         ELSE "chat_append"]
            /\ UNCHANGED response
    /\ UNCHANGED <<chat_sessions, current_session_id, now>>

\* lines 113-114
t_cs_setcur(th) ==
    /\ At(th, "cs_setcur")
    /\ current_session_id' = threads[th].sid
    /\ Finish(th, IF threads[th].sid \in Keys(chat_sessions) THEN 200 ELSE 500, None)
    /\ UNCHANGED <<chat_sessions, now>>

\* the membership test of lines 118, 130 and 142
EnterById(th, op, session_id, pc) ==
    /\ At(th, "idle")
    /\ IF session_id \notin Keys(chat_sessions)
       THEN Finish(th, 404, None)
       ELSE /\ threads' = [threads EXCEPT ![th] =
                              [Idle EXCEPT !.op = op, !.arg = session_id, !.pc = pc]]
            /\ UNCHANGED response
    /\ UNCHANGED <<chat_sessions, current_session_id, now>>

t_update(th, session_id) == EnterById(th, "update", session_id, "up_apply")

\* lines 120-125
t_up_apply(th, data) ==
    LET r == update_session_result(chat_sessions, current_session_id, threads[th].arg, data)
    IN /\ At(th, "up_apply")
       /\ chat_sessions' = r.reg
       /\ Finish(th, IF r.status = 404 THEN 500 ELSE 200, None)
       /\ UNCHANGED <<current_session_id, now>>

t_delete(th, session_id) == EnterById(th, "delete", session_id, "del_del")

\* line 132
t_del_del(th) ==
    LET session_id == threads[th].arg
    IN /\ At(th, "del_del")
       /\ IF session_id \notin Keys(chat_sessions)
          THEN /\ Finish(th, 500, None)
               /\ UNCHANGED chat_sessions
          ELSE /\ chat_sessions' = DelItem(chat_sessions, session_id)
               /\ threads' = [Orphaned(threads, session_id) EXCEPT ![th].pc = "del_cmp"]
               /\ UNCHANGED response
       /\ UNCHANGED <<current_session_id, now>>

\* line 133
t_del_cmp(th) ==
    /\ At(th, "del_cmp")
    /\ IF current_session_id = threads[th].arg
       THEN Goto(th, "del_next") /\ UNCHANGED response
       ELSE Finish(th, 200, None)
    /\ UNCHANGED <<chat_sessions, current_session_id, now>>

\* lines 134-135
t_del_next(th) ==
    /\ At(th, "del_next")
    /\ current_session_id' = FirstKey(chat_sessions)
    /\ IF FirstKey(chat_sessions) = None
       THEN Goto(th, "cso_id") /\ UNCHANGED response
       ELSE Finish(th, 200, None)
    /\ UNCHANGED <<chat_sessions, now>>

\* lines 136-137
t_del_setcur(th) ==
    /\ At(th, "del_setcur")
    /\ current_session_id' = threads[th].sid
    /\ Finish(th, 200, None)
    /\ UNCHANGED <<chat_sessions, now>>

t_switch(th, session_id) == EnterById(th, "switch", session_id, "sw_set")

\* lines 144-145
t_sw_set(th) ==
    /\ At(th, "sw_set")
    /\ current_session_id' = threads[th].arg
    /\ Finish(th, 200, None)
    /\ UNCHANGED <<chat_sessions, now>>

\* the dict a handler holds, and the registry after the handler changed it
\* to `changed`: a dict that left the registry changes out of everyone's sight
Held(reg, sess) == Lookup(reg, sess.key)

OnHeld(reg, sess, changed) ==
    IF sess.live THEN [reg EXCEPT ![IndexOf(reg, sess.key)] = changed] ELSE reg

\* lines 151-152
t_reset_clear(th) ==
    LET d == Held(chat_sessions, threads[th].sess)
    IN /\ At(th, "reset_clear")
       /\ chat_sessions' = OnHeld(chat_sessions, threads[th].sess, [d EXCEPT !.history = <<>>])
       /\ Finish(th, 200, None)
       /\ UNCHANGED <<current_session_id, now>>

\* lines 197-205
t_chat_append(th) ==
    LET req == threads[th].req
        d == Held(chat_sessions, threads[th].sess)
        user == UserTurn(Strip(req.message), req.images)
    IN /\ At(th, "chat_append")
       /\ chat_sessions' = OnHeld(chat_sessions, threads[th].sess,
                                  [d EXCEPT !.history = Append(@, user)])
       /\ Goto(th, "chat_title")
       /\ UNCHANGED <<current_session_id, now, response>>

\* lines 207-211
t_chat_title(th) ==
    LET d == Held(chat_sessions, threads[th].sess)
        user_text == Strip(threads[th].req.message)
    IN /\ At(th, "chat_title")
       /\ chat_sessions' = OnHeld(chat_sessions, threads[th].sess,
                                  [d EXCEPT !.title = AutoTitle(@, user_text)])
       /\ Goto(th, "chat_call")
       /\ UNCHANGED <<current_session_id, now, response>>

\* line 229 on the session the pointer names when the model call returns
chat_reply_result_on_current(reg, cur, sess, reply_text) ==
    IF cur \in Keys(reg)
    THEN [reg EXCEPT ![IndexOf(reg, cur)].history = Append(@, ModelTurn(reply_text))]
    ELSE reg

\* line 229: the registry after history.append on the list that line 197
\* took from the session the request holds
chat_reply_result(reg, cur, sess, reply_text) ==
    LET d == Held(reg, sess)
    IN OnHeld(reg, sess, [d EXCEPT !.history = Append(@, ModelTurn(reply_text))])

\* lines 213-231: the model call returns and the reply is recorded
t_chat_reply(th, outcome) ==
    LET reply_text == ReplyText(outcome)
    IN /\ At(th, "chat_call")
       /\ chat_sessions' = chat_reply_result(chat_sessions, current_session_id,
                                             threads[th].sess, reply_text)
       /\ Finish(th, 200, reply_text)
       /\ UNCHANGED <<current_session_id, now>>

NextThreads ==
    \E th \in Threads :
       \/ t_index(th)
       \/ t_reset(th)
       \/ \E req \in ThreadChatRequests : t_chat(th, req)
       \/ \E req \in ThreadChatRequests : t_chat_empty(th, req)
       \/ t_cso_id(th)
       \/ t_cso_store(th)
       \/ t_goc_setcur(th)
       \/ t_goc_lookup(th)
       \/ t_cs_setcur(th)
       \/ \E id \in RequestIds(chat_sessions) : t_update(th, id)
       \/ \E data \in ThreadUpdateBodies : t_up_apply(th, data)
       \/ \E id \in RequestIds(chat_sessions) : t_delete(th, id)
       \/ t_del_del(th)
       \/ t_del_cmp(th)
       \/ t_del_next(th)
       \/ t_del_setcur(th)
       \/ \E id \in RequestIds(chat_sessions) : t_switch(th, id)
       \/ t_sw_set(th)
       \/ t_reset_clear(th)
       \/ t_chat_append(th)
       \/ t_chat_title(th)
       \/ \E outcome \in ModelOutcomes : t_chat_reply(th, outcome)

SpecThreads == Init /\ [][NextThreads]_vars

-----------------------------------------------------------------------------
(* Properties of the handlers run one at a time *)

Sessions == 1..Len(chat_sessions)

\* the ids a request can name: the keys and ids that are no key
SomeIds == Keys(chat_sessions) \cup {UnknownId, <<Len(chat_sessions) + 1, Timestamp(now)>>}

AllDigits(s) ==
    \A k \in 1..Len(s) : s[k] \in {"0", "1", "2", "3", "4", "5", "6", "7", "8", "9"}

\* "New Chat N" for a number N
IsDefaultTitle(title) ==
    /\ Len(title) > Len(NewChat) + 1
    /\ SubSeq(title, 1, Len(NewChat) + 1) = NewChat \o <<" ">>
    /\ AllDigits(SubSeq(title, Len(NewChat) + 2, Len(title)))

\* C1: every call of create_session_object (POST /api/sessions, the default
\* session of an empty registry, the re-creation of delete) generates an id
\* that is no key of the registry, adds exactly one session and replaces no
\* record of the registry.
C1_CreateAddsFreshSession ==
    \A t \in now..MaxTime :
       LET made == create_session_object(chat_sessions, t)
       IN /\ made.sid \notin Keys(chat_sessions)
          /\ Len(made.reg) = Len(chat_sessions) + 1
          /\ \A i \in Sessions : made.reg[i] = chat_sessions[i]

\* C2: the list of GET /api/sessions has every pinned session before every
\* unpinned one, and each of the two groups in descending created_at order.
C2_PinnedFirstNewestFirst ==
    LET items == SessionItems(chat_sessions)
    IN \A i, j \in 1..Len(items) :
          i < j =>
             /\ items[j].pinned => items[i].pinned
             /\ items[i].pinned = items[j].pinned
                   => items[i].created_at >= items[j].created_at

\* C3: between requests the pointer is None while the registry is empty and
\* otherwise the id of a session of the registry.
C3_CurrentResolves ==
    IF chat_sessions = <<>>
    THEN current_session_id = None
    ELSE current_session_id \in Keys(chat_sessions)

\* a session was deleted (its successor was numbered 2) and the pointer
\* names the session that is left
C3_Witness ==
    /\ Len(chat_sessions) = 1
    /\ chat_sessions[1].id[1] = 2
    /\ current_session_id = chat_sessions[1].id

HasTextTurn(history) ==
    \E k \in 1..Len(history) : history[k].role = "user" /\ history[k].text # <<>>

\* C4: a chat request changes no title that was already derived from a turn
\* of the history or is no longer the default of creation.
C4_AutoTitleOnce ==
    \A req \in ChatRequests, outcome \in ModelOutcomes :
       LET r == chat_result(chat_sessions, current_session_id, req, outcome, now)
       IN \A i \in Sessions :
             (HasTextTurn(chat_sessions[i].history)
                 \/ ~IsDefaultTitle(chat_sessions[i].title))
                => /\ i <= Len(r.reg)
                   /\ r.reg[i].title = chat_sessions[i].title

\* C7: get_or_create_default_session creates exactly one session and makes
\* it current when the registry is empty; on a registry with sessions it
\* changes neither the registry nor the pointer and its lookup of the
\* current session succeeds.
C7_EnsureDefaultIdempotent ==
    \A t \in now..MaxTime :
       LET g == get_or_create_default_session(chat_sessions, current_session_id, t)
       IN /\ g.found
          /\ IF chat_sessions = <<>>
             THEN Len(g.reg) = 1 /\ g.cur = g.reg[1].id
             ELSE g.reg = chat_sessions /\ g.cur = current_session_id

\* GET / has answered on a registry with two sessions, the older one current
C7_Witness ==
    /\ Len(chat_sessions) = 2
    /\ current_session_id = chat_sessions[1].id
    /\ response.status = 200

\* C8: deleting the only session leaves exactly one session, created by the
\* request: current, without history, unpinned, titled "New Chat N"; the
\* response (status 200) reports current_session_id, the new session's id.
C8_DeleteOnlySession ==
    \A t \in now..MaxTime :
       Len(chat_sessions) = 1 =>
          LET r == delete_session_result(chat_sessions, current_session_id,
                                         chat_sessions[1].id, t)
          IN /\ Len(r.reg) = 1
             /\ r.cur = r.reg[1].id
             /\ r.reg[1].history = <<>>
             /\ r.reg[1].pinned = FALSE
             /\ r.reg[1].created_at = t
             /\ IsDefaultTitle(r.reg[1].title)
             /\ r.status = 200

\* the only session is a fresh one, made at a later clock reading than the
\* first session of the run, which is gone
C8_Witness ==
    /\ Len(chat_sessions) = 1
    /\ chat_sessions[1].id[1] = 1
    /\ chat_sessions[1].created_at = now
    /\ now > 0
    /\ chat_sessions[1].history = <<>>
    /\ current_session_id = chat_sessions[1].id
    /\ response.status = 200

Blank(j) == j.kind # "str" \/ \A k \in 1..Len(j.val) : IsSpace(j.val[k])

\* w is s without its leading and trailing whitespace
IsTrimOf(w, s) ==
    /\ w # <<>>
    /\ ~IsSpace(w[1])
    /\ ~IsSpace(w[Len(w)])
    /\ \E a \in 0..Len(s) :
          /\ a + Len(w) <= Len(s)
          /\ SubSeq(s, a + 1, a + Len(w)) = w
          /\ \A k \in 1..Len(s) : (k <= a \/ k > a + Len(w)) => IsSpace(s[k])

\* C9: update_session on a session of the registry keeps a title that is
\* not supplied or is blank, stores the trimmed value of any other title,
\* stores the truth value of a supplied pinned, and changes nothing else:
\* not the session's id, history or created_at, no other session, not the
\* pointer.
C9_UpdateFrame ==
    \A id \in Keys(chat_sessions), data \in UpdateBodies :
       LET r == update_session_result(chat_sessions, current_session_id, id, data)
           i == IndexOf(chat_sessions, id)
           old == chat_sessions[i]
           new == r.reg[i]
       IN /\ Len(r.reg) = Len(chat_sessions)
          /\ \A j \in Sessions : j # i => r.reg[j] = chat_sessions[j]
          /\ new.id = old.id
          /\ new.history = old.history
          /\ new.created_at = old.created_at
          /\ IF data.title = Absent \/ Blank(data.title)
             THEN new.title = old.title
             ELSE IsTrimOf(new.title, data.title.val)
          /\ IF data.pinned = Absent
             THEN new.pinned = old.pinned
             ELSE new.pinned = (data.pinned \in {JsonBool(TRUE), JsonStr(<<"n", "o">>)})
          /\ r.cur = current_session_id
          /\ r.status = 200

\* a session was renamed "hi" and pinned by updates while another one kept
\* its default title and the pointer
C9_Witness ==
    /\ Len(chat_sessions) = 2
    /\ chat_sessions[1].title = <<"h", "i">>
    /\ chat_sessions[1].history = <<>>
    /\ chat_sessions[1].pinned
    /\ IsDefaultTitle(chat_sessions[2].title)
    /\ current_session_id = chat_sessions[2].id
    /\ response.status = 200

NotFoundUnchanged(r) ==
    /\ r.status = 404
    /\ r.reg = chat_sessions
    /\ r.cur = current_session_id

\* C10: get_session, update_session, delete_session and switch_session on an
\* id that is no key answer 404 and change neither the registry nor the
\* pointer.
C10_NotFound ==
    \A id \in SomeIds \ Keys(chat_sessions) :
       /\ NotFoundUnchanged(get_session_result(chat_sessions, current_session_id, id))
       /\ \A data \in UpdateBodies :
             NotFoundUnchanged(update_session_result(chat_sessions, current_session_id, id, data))
       /\ \A t \in now..MaxTime :
             NotFoundUnchanged(delete_session_result(chat_sessions, current_session_id, id, t))
       /\ NotFoundUnchanged(switch_session_result(chat_sessions, current_session_id, id))

\* a request for an unknown id was answered 404 on a registry of two sessions
C10_Witness ==
    /\ response.status = 404
    /\ Len(chat_sessions) = 2
    /\ current_session_id = chat_sessions[1].id

OnlySpace(s) == \A k \in 1..Len(s) : IsSpace(s[k])

\* C11: a chat request whose message is empty or whitespace only and that
\* has no image part is answered 200 with the fixed prompt, whatever the
\* model would have answered and whatever the clock reads, and leaves the
\* registry (no session created, no history or title changed) and the
\* pointer as they were.
C11_EmptyChatChangesNothing ==
    \A req \in ChatRequests, outcome \in ModelOutcomes, t \in now..MaxTime :
       (OnlySpace(req.message) /\ req.images = 0)
       => chat_result(chat_sessions, current_session_id, req, outcome, t)
             = Result(chat_sessions, current_session_id, 200, Prompt)

\* the prompt was the answer to a chat request on the empty registry
C11_Witness ==
    /\ response = Resp(200, Prompt)
    /\ chat_sessions = <<>>
    /\ current_session_id = None

\* the history of the session the pointer names, none on the empty registry
CurrentHistory ==
    IF current_session_id \in Keys(chat_sessions)
    THEN Lookup(chat_sessions, current_session_id).history
    ELSE <<>>

\* C12: a chat request with something to send whose model call raises is
\* answered 200 with the reply "Model error: " followed by the exception's
\* text, and the history of the session it ran on (the current one, or the
\* default session it created) is the former history followed by exactly
\* the user turn and a model turn with that reply.
C12_ModelErrorRecorded ==
    \A req \in ChatRequests, outcome \in ModelOutcomes, t \in now..MaxTime :
       (~(OnlySpace(req.message) /\ req.images = 0) /\ outcome.raised)
       => LET r == chat_result(chat_sessions, current_session_id, req, outcome, t)
              error_text == ModelErrorPrefix \o outcome.text
          IN /\ r.status = 200
             /\ r.reply = error_text
             /\ r.cur \in Keys(r.reg)
             /\ Len(r.reg) = IF chat_sessions = <<>> THEN 1 ELSE Len(chat_sessions)
             /\ Lookup(r.reg, r.cur).history
                   = CurrentHistory
                        \o <<[role |-> "user", text |-> Strip(req.message),
                              images |-> req.images],
                             [role |-> "model", text |-> error_text, images |-> 0]>>

\* a failed exchange is the second one of a session: the first was answered
C12_Witness ==
    /\ Len(chat_sessions) = 1
    /\ Len(chat_sessions[1].history) = 4
    /\ chat_sessions[1].history[2].text = ReplyOk
    /\ chat_sessions[1].history[3].role = "user"
    /\ chat_sessions[1].history[4] = [role |-> "model", text |-> ModelErrorPrefix \o <<"x">>,
                                      images |-> 0]
    /\ response = Resp(200, ModelErrorPrefix \o <<"x">>)

\* C13: every session of the registry has a non-empty title, after every
\* request: create_session_object, update_session with any body and the
\* auto-title of chat store no empty title.
C13_TitlesNonEmpty == \A i \in Sessions : chat_sessions[i].title # <<>>

\* a session took a turn without text and kept its default title, beside a
\* session that an update renamed
C13_Witness ==
    /\ Len(chat_sessions) = 2
    /\ chat_sessions[1].history # <<>>
    /\ chat_sessions[1].history[1].text = <<>>
    /\ IsDefaultTitle(chat_sessions[1].title)
    /\ chat_sessions[2].history = <<>>
    /\ chat_sessions[2].title = <<"h", "i">>

\* C14: reset on a registry with sessions empties the history of the current
\* session and changes nothing else: that session's id, title, pinned and
\* created_at, every other session, the number and order of the sessions and
\* the pointer stay; on the empty registry it leaves the one default session
\* it created, current and without history. It answers 200.
C14_ResetFrame ==
    \A t \in now..MaxTime :
       LET r == reset_result(chat_sessions, current_session_id, t)
       IN /\ r.status = 200
          /\ IF chat_sessions = <<>>
             THEN /\ Len(r.reg) = 1
                  /\ r.cur = r.reg[1].id
                  /\ r.reg[1].history = <<>>
             ELSE /\ r.cur = current_session_id
                  /\ Len(r.reg) = Len(chat_sessions)
                  /\ \A i \in Sessions :
                        /\ r.reg[i].id = chat_sessions[i].id
                        /\ r.reg[i].title = chat_sessions[i].title
                        /\ r.reg[i].pinned = chat_sessions[i].pinned
                        /\ r.reg[i].created_at = chat_sessions[i].created_at
                        /\ r.reg[i].history =
                              IF chat_sessions[i].id = current_session_id THEN <<>>
                              ELSE chat_sessions[i].history

\* the current session lost the history its title was derived from, and the
\* other session has its turns
C14_Witness ==
    /\ Len(chat_sessions) = 2
    /\ current_session_id = chat_sessions[2].id
    /\ chat_sessions[2].title = <<"N", "e", "w", " ", "C", "h", "a", "t", "s">>
    /\ chat_sessions[2].history = <<>>
    /\ Len(chat_sessions[1].history) = 2
    /\ response.status = 200

UserTurns(history) == {k \in 1..Len(history) : history[k].role = "user"}

\* the message_count that GET /api/sessions reports for a session
MessageCount(reg, id) ==
    LET items == SessionItems(reg)
    IN items[CHOOSE k \in 1..Len(items) : items[k].id = id].message_count

\* C15: the list of GET /api/sessions has one item for each session, and its
\* message_count is the number of turns of role user in the session's
\* history, model turns not counted; after reset the current session's
\* count is 0, and a chat request with something to send raises the count
\* of the session it ran on by exactly 1.
C15_MessageCountIsUserTurns ==
    LET items == SessionItems(chat_sessions)
    IN /\ Len(items) = Len(chat_sessions)
       /\ \A i \in Sessions :
             /\ Cardinality({k \in 1..Len(items) : items[k].id = chat_sessions[i].id}) = 1
             /\ MessageCount(chat_sessions, chat_sessions[i].id)
                   = Cardinality(UserTurns(chat_sessions[i].history))
       /\ \A t \in now..MaxTime :
             LET r == reset_result(chat_sessions, current_session_id, t)
             IN MessageCount(r.reg, r.cur) = 0
       /\ \A req \in ChatRequests, outcome \in ModelOutcomes, t \in now..MaxTime :
             ~(OnlySpace(req.message) /\ req.images = 0)
             => LET r == chat_result(chat_sessions, current_session_id, req, outcome, t)
                IN MessageCount(r.reg, r.cur)
                      = 1 + (IF chat_sessions = <<>> THEN 0
                             ELSE MessageCount(chat_sessions, current_session_id))

\* the list was served for a session of two exchanges: four turns, two of
\* them of role user
C15_Witness ==
    /\ Len(chat_sessions) = 1
    /\ Len(chat_sessions[1].history) = 4
    /\ Cardinality(UserTurns(chat_sessions[1].history)) = 2
    /\ response = Resp(200, None)

\* C18: delete_session on a key of the registry removes that session's
\* record and no other: the records of the other sessions stay as they
\* were, in their order. If the removed session was not the current one the
\* pointer stays and the registry holds the other sessions only; a session
\* is added (one, without history) only when the last session was removed.
C18_DeleteFrame ==
    \A id \in Keys(chat_sessions), t \in now..MaxTime :
       LET r == delete_session_result(chat_sessions, current_session_id, id, t)
           i == IndexOf(chat_sessions, id)
           n == Len(chat_sessions)
       IN /\ r.status = 200
          /\ Len(r.reg) >= n - 1
          /\ \A j \in 1..(n - 1) :
                r.reg[j] = chat_sessions[IF j < i THEN j ELSE j + 1]
          /\ IF n = 1
             THEN Len(r.reg) = 1 /\ r.reg[1].history = <<>> /\ r.reg[1].created_at = t
             ELSE Len(r.reg) = n - 1
          /\ id # current_session_id => r.cur = current_session_id /\ Len(r.reg) = n - 1

\* the first of two sessions was deleted while the second one, which has an
\* exchange and a derived title, was current
C18_Witness ==
    /\ Len(chat_sessions) = 1
    /\ chat_sessions[1].id[1] = 2
    /\ Len(chat_sessions[1].history) = 2
    /\ chat_sessions[1].title = <<"h", "i">>
    /\ current_session_id = chat_sessions[1].id
    /\ response = Resp(200, None)

-----------------------------------------------------------------------------
(* Properties of the handlers on worker threads *)

\* no handler is in flight
Quiescent == \A th \in Threads : At(th, "idle")

\* C5: with delete_session running beside the other handlers, a handler that
\* is about to read chat_sessions[current_session_id] (line 40), and every
\* state in which all handlers have returned, finds that a current-session
\* pointer that was set names a key of the registry whenever the registry is
\* non-empty: the lookup of get_or_create_default_session does not fail on a
\* removed session.
C5_CurrentNeverNamesRemoved ==
    (/\ chat_sessions # <<>>
     /\ current_session_id # None
     /\ Quiescent \/ \E th \in Threads : At(th, "goc_lookup"))
    => current_session_id \in Keys(chat_sessions)

\* C6: two POST /api/sessions that run at the same time leave two distinct
\* sessions: when both have stored their record (line 49) and are about to
\* set the pointer (line 113), the ids they generated differ, so neither
\* record replaced the other, as it is when they run one after the other.
C6_ConcurrentCreatesDistinct ==
    \A a, b \in Threads :
       (a # b /\ At(a, "cs_setcur") /\ At(b, "cs_setcur"))
       => threads[a].sid # threads[b].sid

\* user turn, model turn, user turn, model turn, ...
Alternates(history) ==
    /\ Len(history) % 2 = 0
    /\ \A k \in 1..Len(history) :
          history[k].role = IF k % 2 = 1 THEN "user" ELSE "model"

\* C16: whenever no chat request is in flight, the history of every session
\* of the registry has even length and alternates user turn, model turn,
\* starting with a user turn, whatever requests ran beside the chat
\* requests while they waited for the model.
C16_HistoriesAlternate ==
    InFlight("chat") = 0 => \A i \in Sessions : Alternates(chat_sessions[i].history)

\* C17: when the model call of a chat request returns, its model turn is
\* appended to the history of the session the request holds since line 196,
\* the one whose history took its user turn at line 205, and every other
\* session is left as it is, wherever the pointer is by then; if that
\* session left the registry meanwhile, no session of the registry takes
\* the reply.
C17_ReplyGoesToHeldSession ==
    \A th \in Threads, outcome \in ModelOutcomes :
       At(th, "chat_call") =>
          LET sess == threads[th].sess
              reply == [role |-> "model", text |-> ReplyText(outcome), images |-> 0]
              after == chat_reply_result(chat_sessions, current_session_id, sess,
                                         ReplyText(outcome))
          IN /\ Len(after) = Len(chat_sessions)
             /\ \A i \in Sessions :
                   after[i] = IF sess.live /\ chat_sessions[i].id = sess.key
                              THEN [chat_sessions[i] EXCEPT !.history = Append(@, reply)]
                              ELSE chat_sessions[i]

\* a chat request waits for the model on a session that has its user turn,
\* and the pointer has moved to another session of the registry
C17_Witness ==
    \E th \in Threads :
       /\ At(th, "chat_call")
       /\ threads[th].sess.live
       /\ current_session_id \in Keys(chat_sessions) \ {threads[th].sess.key}
       /\ LET history == Lookup(chat_sessions, threads[th].sess.key).history
          IN /\ history # <<>>
             /\ history[Len(history)] = UserTurn(Strip(threads[th].req.message),
                                                  threads[th].req.images)

====
